---- MODULE Spec2Model ----
(***************************************************************************)
(* Model of the Elision exchange liquidity pool                            *)
(* (src/scrypto/exchange/src/liquidity_pool.rs, with the helpers of        *)
(* src/contracts/core/src/utils.rs).                                       *)
(*                                                                         *)
(* Amounts are Scrypto `Decimal`s: fixed-point numbers, stored as an       *)
(* integer count of units of 1/ONE.  Multiplication and division compute   *)
(* on the raw integers and truncate toward zero; division by zero and a    *)
(* failed assertion panic, and a panic aborts the whole transaction, so    *)
(* that none of the writes of the failed call is committed.                *)
(* The real scale is 10^18; the model uses a small scale so that the       *)
(* arithmetic stays inside TLC's integers.                                 *)
(***************************************************************************)
EXTENDS Integers, Sequences, FiniteSets, TLC

\* ------------------------------------------------------------------ bounds
\* Raw units per 1.0 (the Decimal scale).
ONE == 10
\* Number of calls in one behaviour.
MaxOps == 3
\* Largest reserve / share supply (raw) a committed call may leave.
MaxAmount == 30000

\* ----------------------------------------------------------- Decimal type
Dec(n) == n * ONE

Abs(a) == IF a < 0 THEN -a ELSE a

\* Integer division truncating toward zero (b # 0).
TruncDiv(a, b) ==
  IF (a < 0) = (b < 0) THEN Abs(a) \div Abs(b) ELSE -(Abs(a) \div Abs(b))

\* Decimal * Decimal
DecMul(a, b) == TruncDiv(a * b, ONE)

\* Decimal / Decimal (b # 0; the callers test for zero, which panics)
DecDiv(a, b) == TruncDiv(a * ONE, b)

\* --------------------------------------------------------------- resources
\* Resource addresses, ordered as their byte vectors are.
TokenA == 1
TokenB == 2
\* A resource that is in no pool.
TokenC == 3
\* The provider token the pool issues, and some other pool's provider token.
ProviderToken == 4
ForeignToken == 5

Bucket(address, amt) == [resource_address |-> address, amount |-> amt]

\* sort_addresses returning the addresses in the order given.
sort_addresses_AsGiven(address0, address1) == <<address0, address1>>

\* utils.rs
sort_addresses(address0, address1) ==
  IF address0 > address1 THEN <<address0, address1>> ELSE <<address1, address0>>

sort_buckets(bucket0, bucket1) ==
  LET addresses == sort_addresses(bucket0.resource_address, bucket1.resource_address)
  IN  IF bucket0.resource_address = addresses[1]
        THEN <<bucket0, bucket1>>
        ELSE <<bucket1, bucket0>>

\* Bucket::take(amount): the engine refuses a negative amount and an amount
\* the bucket does not hold.
TakeFails(bucket, amt) == amt < 0 \/ amt > bucket.amount

\* ------------------------------------------------------------ LiquidityPool
\* A pool is [vaults, provider_token_address, pool_fee, total_supply];
\* total_supply is the supply of the provider token, kept by its resource
\* manager.  Every method returns [err, pool, out]: err is "none" or the
\* kind of the failure, pool the component state when the method returned
\* or panicked, out the amounts of the buckets it returned.

Ret(e, p, o) == [err |-> e, pool |-> p, out |-> o]

belongs_to_pool(p, address) == address \in DOMAIN p.vaults

other_resource_address(p, address) ==
  CHOOSE a \in DOMAIN p.vaults : a # address


FeeModifier(p) == DecDiv(Dec(100) - p.pool_fee, Dec(100))

\* calculate_output_amount without the input in the divisor: dy = dx*r*y / x.
calculate_output_amount_NoInputInDivisor(p, input_resource_address, input_amount) ==
  IF ~belongs_to_pool(p, input_resource_address)
    THEN Ret("MembershipError", p, <<>>)
    ELSE
      LET x == p.vaults[input_resource_address]
          y == p.vaults[other_resource_address(p, input_resource_address)]
          dx == input_amount
          r == FeeModifier(p)
      IN  IF x = 0
            THEN Ret("DivideByZero", p, <<>>)
            ELSE Ret("none", p, <<DecDiv(DecMul(DecMul(dx, r), y), x)>>)

calculate_output_amount(p, input_resource_address, input_amount) ==
  IF ~belongs_to_pool(p, input_resource_address)
    THEN Ret("MembershipError", p, <<>>)
    ELSE
      LET x == p.vaults[input_resource_address]
          y == p.vaults[other_resource_address(p, input_resource_address)]
          dx == input_amount
          r == FeeModifier(p)
      IN  IF x + DecMul(r, dx) = 0
            THEN Ret("DivideByZero", p, <<>>)
            ELSE Ret("none", p, <<DecDiv(DecMul(DecMul(dx, r), y), x + DecMul(r, dx))>>)

calculate_input_amount(p, output_resource_address, output_amount) ==
  IF ~belongs_to_pool(p, output_resource_address)
    THEN Ret("MembershipError", p, <<>>)
    ELSE
      LET x == p.vaults[other_resource_address(p, output_resource_address)]
          y == p.vaults[output_resource_address]
          dy == output_amount
          r == FeeModifier(p)
      IN  IF DecMul(r, y - dy) = 0
            THEN Ret("DivideByZero", p, <<>>)
            ELSE Ret("none", p, <<DecDiv(DecMul(dy, x), DecMul(r, y - dy))>>)

deposit(p, bucket) ==
  IF ~belongs_to_pool(p, bucket.resource_address)
    THEN Ret("MembershipError", p, <<>>)
    ELSE Ret("none",
             [p EXCEPT !.vaults[bucket.resource_address] = @ + bucket.amount],
             <<>>)

\* withdraw that takes the amount without comparing it to the vault.
withdraw_Unchecked(p, resource_address, amt) ==
  IF ~belongs_to_pool(p, resource_address)
    THEN Ret("MembershipError", p, <<>>)
  ELSE IF amt < 0
    THEN Ret("ResourceError", p, <<>>)
  ELSE Ret("none", [p EXCEPT !.vaults[resource_address] = @ - amt], <<amt>>)

withdraw(p, resource_address, amt) ==
  IF ~belongs_to_pool(p, resource_address)
    THEN Ret("MembershipError", p, <<>>)
  ELSE IF ~(p.vaults[resource_address] >= amt)
    THEN Ret("LiquidityError", p, <<>>)
  ELSE IF amt < 0
    THEN Ret("ResourceError", p, <<>>)
  ELSE Ret("none", [p EXCEPT !.vaults[resource_address] = @ - amt], <<amt>>)


\* Resource type of an address: one resource of the model is non-fungible.
NftToken == 6
resource_type(address) == IF address = NftToken THEN "NonFungible" ELSE "Fungible"

\* new putting each bucket into the vault of the other resource.
new_SwappedVaults(token0, token1, pool_fee) ==
  IF token0.resource_address = token1.resource_address
    THEN Ret("ValidationError", <<>>, <<>>)
  ELSE IF resource_type(token0.resource_address) = "NonFungible"
    THEN Ret("ValidationError", <<>>, <<>>)
  ELSE IF resource_type(token1.resource_address) = "NonFungible"
    THEN Ret("ValidationError", <<>>, <<>>)
  ELSE IF ~(token0.amount # 0 /\ token1.amount # 0)
    THEN Ret("ValidationError", <<>>, <<>>)
  ELSE IF ~(pool_fee >= 0 /\ pool_fee <= Dec(100))
    THEN Ret("ValidationError", <<>>, <<>>)
  ELSE
    LET sorted == sort_buckets(token0, token1)
        bucket0 == sorted[1]
        bucket1 == sorted[2]
    IN  Ret("none",
            [vaults |-> (bucket0.resource_address :> bucket1.amount)
                        @@ (bucket1.resource_address :> bucket0.amount),
             provider_token_address |-> ProviderToken,
             pool_fee |-> pool_fee,
             total_supply |-> Dec(100)],
            <<Dec(100)>>)

\* new without the assertion that neither bucket is empty.
new_NoEmptyCheck(token0, token1, pool_fee) ==
  IF token0.resource_address = token1.resource_address
    THEN Ret("ValidationError", <<>>, <<>>)
  ELSE IF resource_type(token0.resource_address) = "NonFungible"
    THEN Ret("ValidationError", <<>>, <<>>)
  ELSE IF resource_type(token1.resource_address) = "NonFungible"
    THEN Ret("ValidationError", <<>>, <<>>)
  ELSE IF ~(pool_fee >= 0 /\ pool_fee <= Dec(100))
    THEN Ret("ValidationError", <<>>, <<>>)
  ELSE
    LET sorted == sort_buckets(token0, token1)
        bucket0 == sorted[1]
        bucket1 == sorted[2]
    IN  Ret("none",
            [vaults |-> (bucket0.resource_address :> bucket0.amount)
                        @@ (bucket1.resource_address :> bucket1.amount),
             provider_token_address |-> ProviderToken,
             pool_fee |-> pool_fee,
             total_supply |-> Dec(100)],
            <<Dec(100)>>)

new(token0, token1, pool_fee) ==
  IF token0.resource_address = token1.resource_address
    THEN Ret("ValidationError", <<>>, <<>>)
  ELSE IF resource_type(token0.resource_address) = "NonFungible"
    THEN Ret("ValidationError", <<>>, <<>>)
  ELSE IF resource_type(token1.resource_address) = "NonFungible"
    THEN Ret("ValidationError", <<>>, <<>>)
  ELSE IF ~(token0.amount # 0 /\ token1.amount # 0)
    THEN Ret("ValidationError", <<>>, <<>>)
  ELSE IF ~(pool_fee >= 0 /\ pool_fee <= Dec(100))
    THEN Ret("ValidationError", <<>>, <<>>)
  ELSE
    LET sorted == sort_buckets(token0, token1)
        bucket0 == sorted[1]
        bucket1 == sorted[2]
    IN  Ret("none",
            [vaults |-> (bucket0.resource_address :> bucket0.amount)
                        @@ (bucket1.resource_address :> bucket1.amount),
             provider_token_address |-> ProviderToken,
             pool_fee |-> pool_fee,
             total_supply |-> Dec(100)],
            <<Dec(100)>>)

\* LiquidityAmounts with the comparison of the two ratios turned around.
LiquidityAmounts_WrongSide(m, n, dm, dn) ==
  IF (m = 0 \/ n = 0) \/ (DecDiv(m, n) = DecDiv(dm, dn))
    THEN <<dm, dn>>
  ELSE IF DecDiv(m, n) > DecDiv(dm, dn)
    THEN <<DecDiv(DecMul(dn, m), n), dn>>
  ELSE <<dm, DecDiv(DecMul(dm, n), m)>>

\* The amounts add_liquidity deposits, from the reserves (m, n) and the
\* offered amounts (dm, dn), all in the order of sort_buckets; n # 0, dn # 0.
LiquidityAmounts(m, n, dm, dn) ==
  IF (m = 0 \/ n = 0) \/ (DecDiv(m, n) = DecDiv(dm, dn))
    THEN <<dm, dn>>
  ELSE IF DecDiv(m, n) < DecDiv(dm, dn)
    THEN <<DecDiv(DecMul(dn, m), n), dn>>
  ELSE <<dm, DecDiv(DecMul(dm, n), m)>>

\* ProviderAmount on the reserve after the deposit instead of before it.
ProviderAmount_AfterDeposit(total_supply, amount0, m) ==
  IF total_supply = 0
    THEN Dec(100)
    ELSE DecDiv(DecMul(amount0, total_supply), m + amount0)

\* The provider tokens add_liquidity mints; m # 0 unless the supply is zero.
ProviderAmount(total_supply, amount0, m) ==
  IF total_supply = 0 THEN Dec(100) ELSE DecDiv(DecMul(amount0, total_supply), m)

add_liquidity(p, token0, token1) ==
  IF ~belongs_to_pool(p, token0.resource_address)
       \/ ~belongs_to_pool(p, token1.resource_address)
    THEN Ret("MembershipError", p, <<>>)
  ELSE IF token0.amount = 0 \/ token1.amount = 0
    THEN Ret("ValidationError", p, <<>>)
  ELSE
    LET sorted == sort_buckets(token0, token1)
        bucket0 == sorted[1]
        bucket1 == sorted[2]
        dm == bucket0.amount
        dn == bucket1.amount
        m == p.vaults[bucket0.resource_address]
        n == p.vaults[bucket1.resource_address]
    IN  \* `|` evaluates both operands: m / n is computed also when n is zero
        IF n = 0 \/ dn = 0
          THEN Ret("DivideByZero", p, <<>>)
        ELSE
          LET amounts == LiquidityAmounts(m, n, dm, dn)
              amount0 == amounts[1]
              amount1 == amounts[2]
          IN  IF TakeFails(bucket0, amount0)
                THEN Ret("ResourceError", p, <<>>)
              ELSE
                LET d0 == deposit(p, Bucket(bucket0.resource_address, amount0))
                IN  IF TakeFails(bucket1, amount1)
                      THEN Ret("ResourceError", d0.pool, <<>>)
                    ELSE
                      LET d1 == deposit(d0.pool, Bucket(bucket1.resource_address, amount1))
                          supply == d1.pool.total_supply
                      IN  IF supply # 0 /\ m = 0
                            THEN Ret("DivideByZero", d1.pool, <<>>)
                          ELSE
                            LET provider_amount == ProviderAmount(supply, amount0, m)
                            IN  Ret("none",
                                    [d1.pool EXCEPT !.total_supply = @ + provider_amount],
                                    <<bucket0.amount - amount0,
                                      bucket1.amount - amount1,
                                      provider_amount>>)

\* addresses() lists the keys of the HashMap of vaults, in an order the code
\* does not fix: some order, the same at every call on the same pool.
addresses(p) ==
  CHOOSE s \in {<<a, other_resource_address(p, a)>> : a \in DOMAIN p.vaults} : TRUE

k(p) == DecMul(p.vaults[addresses(p)[1]], p.vaults[addresses(p)[2]])

\* remove_liquidity without the check of the provider token's address.
remove_liquidity_NoIdentityCheck(p, provider_tokens) ==
  IF p.total_supply = 0
    THEN Ret("DivideByZero", p, <<>>)
  ELSE
    LET percentage == DecDiv(provider_tokens.amount, p.total_supply)
        burned == [p EXCEPT !.total_supply = @ - provider_tokens.amount]
        a0 == addresses(p)[1]
        a1 == addresses(p)[2]
        w0 == withdraw(burned, a0, DecMul(burned.vaults[a0], percentage))
    IN  IF w0.err # "none"
          THEN Ret(w0.err, w0.pool, <<>>)
        ELSE
          LET w1 == withdraw(w0.pool, a1, DecMul(w0.pool.vaults[a1], percentage))
          IN  IF w1.err # "none"
                THEN Ret(w1.err, w1.pool, <<>>)
                ELSE Ret("none", w1.pool, <<w0.out[1], w1.out[1]>>)

\* remove_liquidity computing the percentage on the supply left after the burn.
remove_liquidity_PercentageAfterBurn(p, provider_tokens) ==
  IF provider_tokens.resource_address # p.provider_token_address
    THEN Ret("ValidationError", p, <<>>)
  ELSE IF p.total_supply - provider_tokens.amount = 0
    THEN Ret("DivideByZero", p, <<>>)
  ELSE
    LET burned == [p EXCEPT !.total_supply = @ - provider_tokens.amount]
        percentage == DecDiv(provider_tokens.amount, burned.total_supply)
        a0 == addresses(p)[1]
        a1 == addresses(p)[2]
        w0 == withdraw(burned, a0, DecMul(burned.vaults[a0], percentage))
    IN  IF w0.err # "none"
          THEN Ret(w0.err, w0.pool, <<>>)
        ELSE
          LET w1 == withdraw(w0.pool, a1, DecMul(w0.pool.vaults[a1], percentage))
          IN  IF w1.err # "none"
                THEN Ret(w1.err, w1.pool, <<>>)
                ELSE Ret("none", w1.pool, <<w0.out[1], w1.out[1]>>)

remove_liquidity(p, provider_tokens) ==
  IF provider_tokens.resource_address # p.provider_token_address
    THEN Ret("ValidationError", p, <<>>)
  ELSE IF p.total_supply = 0
    THEN Ret("DivideByZero", p, <<>>)
  ELSE
    LET percentage == DecDiv(provider_tokens.amount, p.total_supply)
        burned == [p EXCEPT !.total_supply = @ - provider_tokens.amount]
        a0 == addresses(p)[1]
        a1 == addresses(p)[2]
        w0 == withdraw(burned, a0, DecMul(burned.vaults[a0], percentage))
    IN  IF w0.err # "none"
          THEN Ret(w0.err, w0.pool, <<>>)
        ELSE
          LET w1 == withdraw(w0.pool, a1, DecMul(w0.pool.vaults[a1], percentage))
          IN  IF w1.err # "none"
                THEN Ret(w1.err, w1.pool, <<>>)
                ELSE Ret("none", w1.pool, <<w0.out[1], w1.out[1]>>)

\* swap that deposits the input before it computes the output amount.
swap_DepositFirst(p, tokens) ==
  IF ~belongs_to_pool(p, tokens.resource_address)
    THEN Ret("MembershipError", p, <<>>)
  ELSE
    LET d == deposit(p, tokens).pool
        q == calculate_output_amount(d, tokens.resource_address, tokens.amount)
    IN  IF q.err # "none"
          THEN Ret(q.err, d, <<>>)
        ELSE
          LET w == withdraw(d, other_resource_address(p, tokens.resource_address),
                            q.out[1])
          IN  IF w.err # "none" THEN Ret(w.err, w.pool, <<>>)
                                ELSE Ret("none", w.pool, w.out)

swap(p, tokens) ==
  IF ~belongs_to_pool(p, tokens.resource_address)
    THEN Ret("MembershipError", p, <<>>)
  ELSE
    LET q == calculate_output_amount(p, tokens.resource_address, tokens.amount)
    IN  IF q.err # "none"
          THEN Ret(q.err, p, <<>>)
        ELSE
          LET w == withdraw(p, other_resource_address(p, tokens.resource_address),
                            q.out[1])
          IN  IF w.err # "none"
                THEN Ret(w.err, w.pool, <<>>)
                ELSE Ret("none", deposit(w.pool, tokens).pool, w.out)

\* swap_exact_tokens_for_tokens asserting output > min_amount_out.
swap_exact_tokens_for_tokens_Strict(p, tokens, min_amount_out) ==
  IF ~belongs_to_pool(p, tokens.resource_address)
    THEN Ret("MembershipError", p, <<>>)
  ELSE
    LET s == swap(p, tokens)
    IN  IF s.err # "none"
          THEN s
        ELSE IF ~(s.out[1] > min_amount_out)
          THEN Ret("SlippageError", s.pool, <<>>)
        ELSE s

swap_exact_tokens_for_tokens(p, tokens, min_amount_out) ==
  IF ~belongs_to_pool(p, tokens.resource_address)
    THEN Ret("MembershipError", p, <<>>)
  ELSE
    LET s == swap(p, tokens)
    IN  IF s.err # "none"
          THEN s
        ELSE IF ~(s.out[1] >= min_amount_out)
          THEN Ret("SlippageError", s.pool, <<>>)
        ELSE s

\* swap_tokens_for_exact_tokens that deposits the whole input bucket and
\* still hands back what exceeds the required input.
swap_tokens_for_exact_tokens_DepositsAll(p, tokens, output_amount) ==
  IF ~belongs_to_pool(p, tokens.resource_address)
    THEN Ret("MembershipError", p, <<>>)
  ELSE
    LET q == calculate_input_amount(
               p, other_resource_address(p, tokens.resource_address), output_amount)
    IN  IF q.err # "none"
          THEN Ret(q.err, p, <<>>)
        ELSE
          LET input_required == q.out[1]
          IN  IF ~(tokens.amount >= input_required)
                THEN Ret("LiquidityError", p, <<>>)
              ELSE IF TakeFails(tokens, input_required)
                THEN Ret("ResourceError", p, <<>>)
              ELSE
                LET d == deposit(p, tokens)
                    w == withdraw(d.pool,
                                  other_resource_address(p, tokens.resource_address),
                                  output_amount)
                IN  IF w.err # "none"
                      THEN Ret(w.err, w.pool, <<>>)
                      ELSE Ret("none", w.pool,
                               <<w.out[1], tokens.amount - input_required>>)

swap_tokens_for_exact_tokens(p, tokens, output_amount) ==
  IF ~belongs_to_pool(p, tokens.resource_address)
    THEN Ret("MembershipError", p, <<>>)
  ELSE
    LET q == calculate_input_amount(
               p, other_resource_address(p, tokens.resource_address), output_amount)
    IN  IF q.err # "none"
          THEN Ret(q.err, p, <<>>)
        ELSE
          LET input_required == q.out[1]
          IN  IF ~(tokens.amount >= input_required)
                THEN Ret("LiquidityError", p, <<>>)
              ELSE IF TakeFails(tokens, input_required)
                THEN Ret("ResourceError", p, <<>>)
              ELSE
                LET d == deposit(p, Bucket(tokens.resource_address, input_required))
                    w == withdraw(d.pool,
                                  other_resource_address(p, tokens.resource_address),
                                  output_amount)
                IN  IF w.err # "none"
                      THEN Ret(w.err, w.pool, <<>>)
                      ELSE Ret("none", w.pool,
                               <<w.out[1], tokens.amount - input_required>>)


\* ------------------------------------------------------------------- state
VARIABLES
  pool,   \* the LiquidityPool component, with the supply of its provider token
  last,   \* the latest call: its arguments, its outcome, the pool before it
  prev,   \* the call before the latest one
  ops,    \* calls made so far
  elision_swap  \* the ElisionSwap component, with the pools it has registered

vars == <<pool, last, prev, ops, elision_swap>>

NoBucket == Bucket(0, 0)

Call(op, in0, in1, arg, res, pre) ==
  [op |-> op, in0 |-> in0, in1 |-> in1, arg |-> arg,
   err |-> res.err, out |-> res.out, pre |-> pre, mid |-> res.pool]

NoCall == Call("none", NoBucket, NoBucket, 0, Ret("none", <<>>, <<>>), <<>>)

\* ------------------------------------------------------------------ inputs
\* The router's fee, 0.3 (percent).
DefaultFee == (3 * ONE) \div 10

InitReserves == {<<Dec(1000), Dec(1000)>>, <<Dec(3), 7>>, <<7, Dec(1000)>>}
InitFees == {0, DefaultFee, Dec(100)}
Amounts == {0, 1, Dec(10)}
MinAmounts == {0, Dec(10) - 1}
OutputAmounts == {1, Dec(3), Dec(1000)}
ShareAmounts == {1, Dec(50)}

PoolTokens == {TokenA, TokenB}

TokenBuckets == {Bucket(TokenA, x) : x \in Amounts}
                  \cup {Bucket(TokenB, Dec(10)), Bucket(TokenC, Dec(10))}

\* The pairs of buckets offered to add_liquidity: in both orders, at the
\* pool's ratio, off it to either side and off it by less than a Decimal
\* quotient resolves, twice the same token, an empty bucket, a token of no
\* pool.
LiquidityOffers ==
  { <<Bucket(TokenA, 7), Bucket(TokenB, 7)>>,
    <<Bucket(TokenA, Dec(10)), Bucket(TokenB, Dec(3) - 1)>>,
    <<Bucket(TokenB, Dec(100)), Bucket(TokenA, Dec(100))>>,
    <<Bucket(TokenA, Dec(100)), Bucket(TokenB, 7)>>,
    <<Bucket(TokenB, Dec(100)), Bucket(TokenA, 7)>>,
    <<Bucket(TokenA, Dec(100)), Bucket(TokenA, Dec(100))>>,
    <<Bucket(TokenA, 0), Bucket(TokenB, 7)>>,
    <<Bucket(TokenC, 7), Bucket(TokenA, 7)>> }

\* Provider tokens a caller can hold: no more than were minted.
ShareBuckets(p) ==
  {Bucket(p.provider_token_address, x) :
     x \in {y \in ShareAmounts \cup {p.total_supply}
                   \cup (IF last.op = "add_liquidity" /\ last.err = "none"
                           THEN {last.out[3]} ELSE {}) : y <= p.total_supply}}
    \cup {Bucket(ForeignToken, Dec(1))}

\* -------------------------------------------------------------- ElisionSwap
\* swap.rs.  The component is [liquidity_pools, address_pair_map]:
\* liquidity_pools maps a pair of addresses to the pool registered for it,
\* address_pair_map a provider token to the pair of its pool.  Its methods
\* return [err, pool, out] as the pool's do, pool being the component.

ElisionSwap_new == [liquidity_pools |-> <<>>, address_pair_map |-> <<>>]

pool_exists(s, address0, address1) ==
  sort_addresses(address0, address1) \in DOMAIN s.liquidity_pools

\* The address the ledger gives the provider token of the next pool: one no
\* resource has yet.
NextProviderToken(s) == ProviderToken + 10 * Cardinality(DOMAIN s.liquidity_pools)

\* new_liquidity_pool that leaves the provider token out of address_pair_map.
new_liquidity_pool_NoPairEntry(s, token0, token1) ==
  IF pool_exists(s, token0.resource_address, token1.resource_address)
    THEN Ret("AlreadyExistsError", s, <<>>)
  ELSE
    LET sorted == sort_buckets(token0, token1)
        pair == <<sorted[1].resource_address, sorted[2].resource_address>>
        created == new(sorted[1], sorted[2], DefaultFee)
    IN  IF created.err # "none"
          THEN Ret(created.err, s, <<>>)
        ELSE
          LET liquidity_pool ==
                [created.pool EXCEPT !.provider_token_address = NextProviderToken(s)]
          IN  Ret("none",
                  [liquidity_pools |-> (pair :> liquidity_pool) @@ s.liquidity_pools,
                   address_pair_map |-> s.address_pair_map],
                  created.out)

\* new_liquidity_pool without assert_not_exists: a second pool replaces the first.
new_liquidity_pool_Overwrites(s, token0, token1) ==
  LET sorted == sort_buckets(token0, token1)
      pair == <<sorted[1].resource_address, sorted[2].resource_address>>
      created == new(sorted[1], sorted[2], DefaultFee)
  IN  IF created.err # "none"
        THEN Ret(created.err, s, <<>>)
      ELSE
        LET liquidity_pool ==
              [created.pool EXCEPT !.provider_token_address = NextProviderToken(s)]
        IN  Ret("none",
                [liquidity_pools |-> (pair :> liquidity_pool) @@ s.liquidity_pools,
                 address_pair_map |->
                   (liquidity_pool.provider_token_address :> pair)
                     @@ s.address_pair_map],
                created.out)

new_liquidity_pool(s, token0, token1) ==
  IF pool_exists(s, token0.resource_address, token1.resource_address)
    THEN Ret("AlreadyExistsError", s, <<>>)
  ELSE
    LET sorted == sort_buckets(token0, token1)
        pair == <<sorted[1].resource_address, sorted[2].resource_address>>
        created == new(sorted[1], sorted[2], DefaultFee)
    IN  IF created.err # "none"
          THEN Ret(created.err, s, <<>>)
        ELSE
          LET liquidity_pool ==
                [created.pool EXCEPT !.provider_token_address = NextProviderToken(s)]
          IN  Ret("none",
                  [liquidity_pools |-> (pair :> liquidity_pool) @@ s.liquidity_pools,
                   address_pair_map |->
                     (liquidity_pool.provider_token_address :> pair)
                       @@ s.address_pair_map],
                  created.out)

\* add_liquidity that fails when no pool is registered for the pair.
ElisionSwap_add_liquidity_RequiresPool(s, token0, token1) ==
  LET sorted == sort_buckets(token0, token1)
      pair == <<sorted[1].resource_address, sorted[2].resource_address>>
  IN  IF pair \in DOMAIN s.liquidity_pools
        THEN
          LET r == add_liquidity(s.liquidity_pools[pair], sorted[1], sorted[2])
          IN  Ret(r.err, [s EXCEPT !.liquidity_pools[pair] = r.pool],
                  IF r.err = "none"
                    THEN <<<<r.out[1]>>, <<r.out[2]>>, r.out[3]>> ELSE <<>>)
        ELSE Ret("NotFoundError", s, <<>>)

\* An Option<Bucket> is <<>> for None and <<amount>> for Some.
ElisionSwap_add_liquidity(s, token0, token1) ==
  LET sorted == sort_buckets(token0, token1)
      pair == <<sorted[1].resource_address, sorted[2].resource_address>>
  IN  IF pair \in DOMAIN s.liquidity_pools
        THEN
          LET r == add_liquidity(s.liquidity_pools[pair], sorted[1], sorted[2])
          IN  Ret(r.err, [s EXCEPT !.liquidity_pools[pair] = r.pool],
                  IF r.err = "none"
                    THEN <<<<r.out[1]>>, <<r.out[2]>>, r.out[3]>> ELSE <<>>)
        ELSE
          LET c == new_liquidity_pool(s, sorted[1], sorted[2])
          IN  Ret(c.err, c.pool,
                  IF c.err = "none" THEN <<<<>>, <<>>, c.out[1]>> ELSE <<>>)

\* remove_liquidity that takes a pool out of both maps once all of its
\* provider tokens are redeemed.
ElisionSwap_remove_liquidity_DropsEmptyPool(s, provider_tokens) ==
  IF provider_tokens.resource_address \notin DOMAIN s.address_pair_map
    THEN Ret("NotFoundError", s, <<>>)
  ELSE
    LET pair == s.address_pair_map[provider_tokens.resource_address]
        r == remove_liquidity(s.liquidity_pools[pair], provider_tokens)
    IN  IF r.err = "none" /\ r.pool.total_supply = 0
          THEN Ret("none",
                   [liquidity_pools |->
                      [q \in DOMAIN s.liquidity_pools \ {pair} |-> s.liquidity_pools[q]],
                    address_pair_map |->
                      [t \in DOMAIN s.address_pair_map \ {provider_tokens.resource_address}
                         |-> s.address_pair_map[t]]],
                   r.out)
          ELSE Ret(r.err, [s EXCEPT !.liquidity_pools[pair] = r.pool], r.out)

\* remove_liquidity that hands a known provider token to some registered
\* pool, not to the one address_pair_map names.
ElisionSwap_remove_liquidity_SomePool(s, provider_tokens) ==
  IF provider_tokens.resource_address \notin DOMAIN s.address_pair_map
    THEN Ret("NotFoundError", s, <<>>)
  ELSE
    LET pair == CHOOSE q \in DOMAIN s.liquidity_pools : TRUE
        r == remove_liquidity(s.liquidity_pools[pair], provider_tokens)
    IN  Ret(r.err, [s EXCEPT !.liquidity_pools[pair] = r.pool], r.out)

ElisionSwap_remove_liquidity(s, provider_tokens) ==
  IF provider_tokens.resource_address \notin DOMAIN s.address_pair_map
    THEN Ret("NotFoundError", s, <<>>)
  ELSE
    LET pair == s.address_pair_map[provider_tokens.resource_address]
        r == remove_liquidity(s.liquidity_pools[pair], provider_tokens)
    IN  Ret(r.err, [s EXCEPT !.liquidity_pools[pair] = r.pool], r.out)

\* swap that takes any registered pool holding the input token, whatever
\* the output address.
ElisionSwap_swap_IgnoresOutput(s, tokens, output_address) ==
  LET holding == {q \in DOMAIN s.liquidity_pools :
                    tokens.resource_address \in {q[1], q[2]}}
  IN  IF holding = {}
        THEN Ret("NotFoundError", s, <<>>)
      ELSE
        LET pair == CHOOSE q \in holding : TRUE
            r == swap(s.liquidity_pools[pair], tokens)
        IN  Ret(r.err, [s EXCEPT !.liquidity_pools[pair] = r.pool], r.out)

ElisionSwap_swap(s, tokens, output_address) ==
  IF ~pool_exists(s, tokens.resource_address, output_address)
    THEN Ret("NotFoundError", s, <<>>)
  ELSE
    LET pair == sort_addresses(tokens.resource_address, output_address)
        r == swap(s.liquidity_pools[pair], tokens)
    IN  Ret(r.err, [s EXCEPT !.liquidity_pools[pair] = r.pool], r.out)

ElisionSwap_swap_exact_tokens_for_tokens(s, tokens, output_address, min_output_amount) ==
  IF ~pool_exists(s, tokens.resource_address, output_address)
    THEN Ret("NotFoundError", s, <<>>)
  ELSE
    LET pair == sort_addresses(tokens.resource_address, output_address)
        r == swap_exact_tokens_for_tokens(s.liquidity_pools[pair], tokens,
                                          min_output_amount)
    IN  Ret(r.err, [s EXCEPT !.liquidity_pools[pair] = r.pool], r.out)

ElisionSwap_swap_tokens_for_exact_tokens(s, tokens, output_address, output_amount) ==
  IF ~pool_exists(s, tokens.resource_address, output_address)
    THEN Ret("NotFoundError", s, <<>>)
  ELSE
    LET pair == sort_addresses(tokens.resource_address, output_address)
        r == swap_tokens_for_exact_tokens(s.liquidity_pools[pair], tokens,
                                          output_amount)
    IN  Ret(r.err, [s EXCEPT !.liquidity_pools[pair] = r.pool], r.out)

\* ----------------------------------------------------------------- actions
InBounds(p) ==
  /\ p.total_supply <= MaxAmount
  /\ \A a \in DOMAIN p.vaults : p.vaults[a] <= MaxAmount

\* A ledger that keeps what a call wrote before it panicked.
Commit_KeepsWrites(p, res) == res.pool

\* The ledger commits the writes of a call that returned and discards those
\* of a call that panicked.
Commit(p, res) == IF res.err = "none" THEN res.pool ELSE p

\* A call that changes the pool counts against MaxOps; a call that failed or
\* only read leaves the pool as it was, and the behaviour ends with it.
Step(op, in0, in1, arg, res) ==
  /\ ops < MaxOps
  /\ res.err = "none" => InBounds(res.pool)
  /\ pool' = Commit(pool, res)
  /\ last' = Call(op, in0, in1, arg, res, pool)
  /\ prev' = [last EXCEPT !.pre = <<>>, !.mid = <<>>]
  /\ ops' = IF res.err = "none" /\ res.pool # pool THEN ops + 1 ELSE MaxOps
  /\ UNCHANGED elision_swap

Init ==
  \E fee \in InitFees, r \in InitReserves,
     order \in {<<TokenA, TokenB>>, <<TokenB, TokenA>>} :
    LET token0 == Bucket(order[1], r[order[1]])
        token1 == Bucket(order[2], r[order[2]])
        res == new(token0, token1, fee)
    IN  /\ res.err = "none"
        /\ pool = res.pool
        /\ last = Call("new", token0, token1, fee, res, <<>>)
        /\ prev = NoCall
        /\ ops = 0
        /\ elision_swap = ElisionSwap_new

CalculateOutputAmount ==
  \E tokens \in TokenBuckets :
    Step("calculate_output_amount", tokens, NoBucket, 0,
         calculate_output_amount(pool, tokens.resource_address, tokens.amount))

CalculateInputAmount ==
  \E a \in PoolTokens \cup {TokenC}, amt \in OutputAmounts :
    Step("calculate_input_amount", Bucket(a, amt), NoBucket, 0,
         calculate_input_amount(pool, a, amt))

AddLiquidity ==
  \E offer \in LiquidityOffers :
    Step("add_liquidity", offer[1], offer[2], 0,
         add_liquidity(pool, offer[1], offer[2]))

RemoveLiquidity ==
  \E provider_tokens \in ShareBuckets(pool) :
    Step("remove_liquidity", provider_tokens, NoBucket, 0,
         remove_liquidity(pool, provider_tokens))

Swap ==
  \E tokens \in TokenBuckets :
    Step("swap", tokens, NoBucket, 0, swap(pool, tokens))

SwapExactTokensForTokens ==
  \E tokens \in TokenBuckets, min_amount_out \in MinAmounts :
    Step("swap_exact_tokens_for_tokens", tokens, NoBucket, min_amount_out,
         swap_exact_tokens_for_tokens(pool, tokens, min_amount_out))

SwapTokensForExactTokens ==
  \E tokens \in TokenBuckets, output_amount \in OutputAmounts :
    Step("swap_tokens_for_exact_tokens", tokens, NoBucket, output_amount,
         swap_tokens_for_exact_tokens(pool, tokens, output_amount))

Next ==
  \/ CalculateOutputAmount
  \/ CalculateInputAmount
  \/ AddLiquidity
  \/ RemoveLiquidity
  \/ Swap
  \/ SwapExactTokensForTokens
  \/ SwapTokensForExactTokens

Spec == Init /\ [][Next]_vars

\* --------------------------------------- LiquidityPool: deposit and withdraw
\* deposit and withdraw are public methods of the globalized pool component:
\* any caller can invoke them directly.  PoolSpec is Spec with these calls.
DepositBuckets ==
  {Bucket(TokenA, Dec(10)), Bucket(TokenC, Dec(10))}

WithdrawRequests ==
  {<<TokenA, Dec(1000) + 1>>, <<TokenB, Dec(3)>>, <<TokenC, 1>>}

Deposit ==
  \E bucket \in DepositBuckets :
    Step("deposit", bucket, NoBucket, 0, deposit(pool, bucket))

Withdraw ==
  \E w \in WithdrawRequests :
    Step("withdraw", NoBucket, NoBucket, w, withdraw(pool, w[1], w[2]))

PoolNext ==
  \/ Next
  \/ Deposit
  \/ Withdraw

PoolSpec == Init /\ [][PoolNext]_vars


\* ------------------------------------------------------ ElisionSwap: actions
RouterTokens == {TokenA, TokenB, TokenC}

\* The pairs of buckets given to new_liquidity_pool and add_liquidity: three
\* pairs of tokens, one of them in both orders, twice the same token, an
\* empty bucket, a non-fungible resource.
RouterOffers ==
  { <<Bucket(TokenA, Dec(1000)), Bucket(TokenB, Dec(1000))>>,
    <<Bucket(TokenB, Dec(100)), Bucket(TokenA, Dec(10))>>,
    <<Bucket(TokenB, Dec(10)), Bucket(TokenC, Dec(10))>>,
    <<Bucket(TokenC, Dec(3)), Bucket(TokenA, 7)>>,
    <<Bucket(TokenA, 7), Bucket(TokenA, 7)>>,
    <<Bucket(TokenA, 0), Bucket(TokenB, Dec(1))>>,
    <<Bucket(NftToken, Dec(10)), Bucket(TokenA, Dec(10))>> }

RouterBuckets == {Bucket(TokenA, Dec(10)), Bucket(TokenB, Dec(10)), Bucket(TokenC, 1)}

\* Provider tokens a caller can hold of the pools registered, and a token
\* the component does not know.
RouterShareBuckets(s) ==
  UNION {{Bucket(t, x) :
            x \in {y \in {Dec(50), s.liquidity_pools[s.address_pair_map[t]].total_supply} :
                     y <= s.liquidity_pools[s.address_pair_map[t]].total_supply}} :
         t \in DOMAIN s.address_pair_map}
    \cup {Bucket(ForeignToken, Dec(50))}

RouterInBounds(s) == \A pair \in DOMAIN s.liquidity_pools : InBounds(s.liquidity_pools[pair])

RouterStep(op, in0, in1, arg, res) ==
  /\ ops < MaxOps
  /\ res.err = "none" => RouterInBounds(res.pool)
  /\ elision_swap' = Commit(elision_swap, res)
  /\ last' = Call(op, in0, in1, arg, res, elision_swap)
  /\ prev' = [last EXCEPT !.pre = <<>>, !.mid = <<>>]
  /\ ops' = IF res.err = "none" /\ res.pool # elision_swap THEN ops + 1 ELSE MaxOps
  /\ UNCHANGED pool

\* ElisionSwap::new(): no pool is registered.
RouterInit ==
  /\ elision_swap = ElisionSwap_new
  /\ pool = <<>>
  /\ last = NoCall
  /\ prev = NoCall
  /\ ops = 0

RouterPoolExists ==
  \E address0 \in RouterTokens, address1 \in RouterTokens :
    RouterStep("pool_exists", Bucket(address0, 0), Bucket(address1, 0), 0,
               Ret("none", elision_swap, <<pool_exists(elision_swap, address0, address1)>>))

RouterNewLiquidityPool ==
  \E offer \in RouterOffers :
    RouterStep("new_liquidity_pool", offer[1], offer[2], 0,
               new_liquidity_pool(elision_swap, offer[1], offer[2]))

RouterAddLiquidity ==
  \E offer \in RouterOffers :
    RouterStep("add_liquidity", offer[1], offer[2], 0,
               ElisionSwap_add_liquidity(elision_swap, offer[1], offer[2]))

RouterRemoveLiquidity ==
  \E provider_tokens \in RouterShareBuckets(elision_swap) :
    RouterStep("remove_liquidity", provider_tokens, NoBucket, 0,
               ElisionSwap_remove_liquidity(elision_swap, provider_tokens))

RouterSwap ==
  \E tokens \in RouterBuckets, output_address \in RouterTokens :
    RouterStep("swap", tokens, NoBucket, <<output_address, 0>>,
               ElisionSwap_swap(elision_swap, tokens, output_address))

RouterSwapExactTokensForTokens ==
  \E tokens \in RouterBuckets, output_address \in RouterTokens,
     min_output_amount \in MinAmounts :
    RouterStep("swap_exact_tokens_for_tokens", tokens, NoBucket,
               <<output_address, min_output_amount>>,
               ElisionSwap_swap_exact_tokens_for_tokens(
                 elision_swap, tokens, output_address, min_output_amount))

RouterSwapTokensForExactTokens ==
  \E tokens \in RouterBuckets, output_address \in RouterTokens,
     output_amount \in {1, Dec(3)} :
    RouterStep("swap_tokens_for_exact_tokens", tokens, NoBucket,
               <<output_address, output_amount>>,
               ElisionSwap_swap_tokens_for_exact_tokens(
                 elision_swap, tokens, output_address, output_amount))

\* A pool is a component of its own: its remove_liquidity can be called
\* without the ElisionSwap component, with any bucket.
PoolRemoveLiquidity ==
  \E pair \in DOMAIN elision_swap.liquidity_pools,
     provider_tokens \in RouterShareBuckets(elision_swap) :
    LET r == remove_liquidity(elision_swap.liquidity_pools[pair], provider_tokens)
    IN  RouterStep("LiquidityPool::remove_liquidity", provider_tokens,
                   Bucket(pair[1], 0), pair,
                   Ret(r.err, [elision_swap EXCEPT !.liquidity_pools[pair] = r.pool],
                       r.out))

RouterNext ==
  \/ RouterPoolExists
  \/ RouterNewLiquidityPool
  \/ RouterAddLiquidity
  \/ RouterRemoveLiquidity
  \/ RouterSwap
  \/ RouterSwapExactTokensForTokens
  \/ RouterSwapTokensForExactTokens
  \/ PoolRemoveLiquidity

RouterSpec == RouterInit /\ [][RouterNext]_vars

\* ------------------------------------------------------------------ claims
PositiveReserves(p) == \A a \in DOMAIN p.vaults : p.vaults[a] > 0

\* The exact product of the two raw reserves.
Product(p) == p.vaults[TokenA] * p.vaults[TokenB]

Succeeded(op) == last.op = op /\ last.err = "none"

\* C1: a successful swap or swap_exact_tokens_for_tokens on a pool with
\* both reserves positive, at any fee in [0,100], leaves the product of the
\* reserves (exact, and as k() computes it) no smaller than before; at fee 0
\* the product grows by less than the truncation of the output amount
\* accounts for: (x + dx) raw units for the division, ONE for the product.
C1_SwapKeepsK ==
  ((Succeeded("swap") \/ Succeeded("swap_exact_tokens_for_tokens"))
      /\ PositiveReserves(last.pre)) =>
    /\ Product(pool) >= Product(last.pre)
    /\ k(pool) >= k(last.pre)
    /\ last.pre.pool_fee = 0 =>
         Product(pool) - Product(last.pre)
           < last.pre.vaults[last.in0.resource_address] + last.in0.amount + ONE

C1_Witness ==
  /\ Succeeded("swap")
  /\ PositiveReserves(last.pre)
  /\ last.pre.pool_fee = DefaultFee
  /\ last.out[1] > 0
  /\ Product(pool) > Product(last.pre)

\* C2: a successful swap_tokens_for_exact_tokens on a pool with both
\* reserves positive leaves the product of the reserves no smaller than
\* before the call.
C2_ExactOutKeepsK ==
  (Succeeded("swap_tokens_for_exact_tokens") /\ PositiveReserves(last.pre)) =>
    Product(pool) >= Product(last.pre)

\* C3: when swap on the same pool and bucket would return an output, then
\* swap_exact_tokens_for_tokens with min_amount_out above that output fails
\* with SlippageError and the pool (reserves, share supply) is as before the
\* call; with min_amount_out at or below it, it succeeds, returns what swap
\* returns and leaves the pool as swap leaves it.
C3_SlippageAborts ==
  (last.op = "swap_exact_tokens_for_tokens"
      /\ swap(last.pre, last.in0).err = "none") =>
    LET s == swap(last.pre, last.in0)
    IN  IF last.arg > s.out[1]
          THEN last.err = "SlippageError" /\ pool = last.pre
          ELSE last.err = "none" /\ last.out = s.out /\ pool = s.pool

\* The check failed after the swap had withdrawn and deposited.
C3_Witness ==
  /\ last.op = "swap_exact_tokens_for_tokens"
  /\ last.err = "SlippageError"
  /\ last.mid # last.pre
  /\ PositiveReserves(last.pre)
  /\ pool = last.pre

\* C4: a successful swap of dx of a pool token, with reserves x (input side)
\* and y (other side) before the call, returns out = (dx*r*y) / (x + r*dx),
\* which is calculate_output_amount on the reserves before the call, and
\* leaves the input reserve at x + dx and the other reserve at y - out.
C4_SwapQuotesBeforeDeposit ==
  Succeeded("swap") =>
    LET a == last.in0.resource_address
        b == other_resource_address(last.pre, a)
        x == last.pre.vaults[a]
        y == last.pre.vaults[b]
        dx == last.in0.amount
        r == DecDiv(Dec(100) - last.pre.pool_fee, Dec(100))
        out == DecDiv(DecMul(DecMul(dx, r), y), x + DecMul(r, dx))
    IN  /\ calculate_output_amount(last.pre, a, dx).out = <<out>>
        /\ last.out = <<out>>
        /\ pool.vaults[a] = x + dx
        /\ pool.vaults[b] = y - out

\* A swap whose output differs from the quote on the reserves after the deposit.
C4_Witness ==
  /\ Succeeded("swap")
  /\ last.in0.amount > 0
  /\ last.out[1] > 0
  /\ LET d == deposit(last.pre, last.in0).pool
     IN  calculate_output_amount(d, last.in0.resource_address, last.in0.amount).out
           # last.out


\* C5: swap_tokens_for_exact_tokens(tokens, output_amount), with req the
\* value calculate_input_amount returns for the other token on the pool
\* before the call: if the bucket holds less than req it fails with
\* LiquidityError and the pool is unchanged; otherwise it succeeds, the
\* input reserve grows by req, the output reserve shrinks by output_amount,
\* and it returns output_amount and the remainder tokens.amount - req.
C5_ExactOutEffects ==
  (last.op = "swap_tokens_for_exact_tokens"
      /\ belongs_to_pool(last.pre, last.in0.resource_address)
      /\ calculate_input_amount(
           last.pre, other_resource_address(last.pre, last.in0.resource_address),
           last.arg).err = "none") =>
    LET a == last.in0.resource_address
        b == other_resource_address(last.pre, a)
        req == calculate_input_amount(last.pre, b, last.arg).out[1]
    IN  IF last.in0.amount < req
          THEN last.err = "LiquidityError" /\ pool = last.pre
          ELSE /\ last.err = "none"
               /\ pool.vaults[a] = last.pre.vaults[a] + req
               /\ pool.vaults[b] = last.pre.vaults[b] - last.arg
               /\ last.out = <<last.arg, last.in0.amount - req>>

\* C6: calculate_input_amount(output token, output_amount) with
\* output_amount >= y, the reserve of the output token, fails with
\* LiquidityError and returns no value; swap_tokens_for_exact_tokens asking
\* for output_amount >= y fails with LiquidityError and leaves the pool
\* unchanged.
C6_OutputAtOrAboveReserveRejected ==
  /\ (last.op = "calculate_input_amount"
        /\ belongs_to_pool(last.pre, last.in0.resource_address)
        /\ last.in0.amount >= last.pre.vaults[last.in0.resource_address]) =>
       last.err = "LiquidityError" /\ last.out = <<>>
  /\ (last.op = "swap_tokens_for_exact_tokens"
        /\ belongs_to_pool(last.pre, last.in0.resource_address)
        /\ last.arg >= last.pre.vaults[
                         other_resource_address(last.pre, last.in0.resource_address)]) =>
       last.err = "LiquidityError" /\ pool = last.pre

\* An add_liquidity call with a non-empty bucket of each of the pool's tokens.
OffersBothTokens(c) ==
  /\ c.op = "add_liquidity"
  /\ c.in0.resource_address # c.in1.resource_address
  /\ c.in0.resource_address \in PoolTokens
  /\ c.in1.resource_address \in PoolTokens
  /\ c.in0.amount > 0
  /\ c.in1.amount > 0

\* C7: on a pool whose shares have all been redeemed (supply zero, both
\* reserves zero), add_liquidity with a non-empty bucket of each token
\* succeeds: it deposits both buckets in full, returns empty remainders and
\* mints the 100 bootstrap provider tokens.
C7_EmptyPoolTakesLiquidity ==
  (OffersBothTokens(last)
      /\ last.pre.total_supply = 0
      /\ \A a \in PoolTokens : last.pre.vaults[a] = 0) =>
    /\ last.err = "none"
    /\ last.out = <<0, 0, Dec(100)>>
    /\ pool.vaults[last.in0.resource_address] = last.in0.amount
    /\ pool.vaults[last.in1.resource_address] = last.in1.amount
    /\ pool.total_supply = Dec(100)

\* What add_liquidity did, given the amounts (first, second, in the order of
\* sort_buckets) it was to deposit: it succeeded, neither amount is above
\* the amount offered, each reserve grew by its amount and each remainder is
\* the amount offered less the amount deposited.
DepositedExactly(dep) ==
  LET sorted == sort_buckets(last.in0, last.in1)
      t0 == sorted[1].resource_address
      t1 == sorted[2].resource_address
  IN  /\ last.err = "none"
      /\ dep[1] <= sorted[1].amount
      /\ dep[2] <= sorted[2].amount
      /\ pool.vaults[t0] = last.pre.vaults[t0] + dep[1]
      /\ pool.vaults[t1] = last.pre.vaults[t1] + dep[2]
      /\ last.out[1] = sorted[1].amount - dep[1]
      /\ last.out[2] = sorted[2].amount - dep[2]

\* The reserves and the offered amounts of the latest call, in the order of
\* sort_buckets: <<m, n, dm, dn>>.
Offer ==
  LET sorted == sort_buckets(last.in0, last.in1)
  IN  <<last.pre.vaults[sorted[1].resource_address],
        last.pre.vaults[sorted[2].resource_address],
        sorted[1].amount, sorted[2].amount>>

C9_MintsProportionally ==
  (Succeeded("add_liquidity") /\ last.pre.total_supply > 0) =>
    LET first == sort_buckets(last.in0, last.in1)[1]
        m == last.pre.vaults[first.resource_address]
        S == last.pre.total_supply
        amount0 == first.amount - last.out[1]
    IN  /\ last.out[3] = DecDiv(DecMul(amount0, S), m)
        /\ pool.total_supply = S + last.out[3]
        /\ (OffersBothTokens(last)
              /\ last.in0.amount = Dec(100) /\ last.in1.amount = Dec(100)
              /\ S = Dec(100)
              /\ \A a \in PoolTokens : last.pre.vaults[a] = Dec(1000)) =>
             last.out[3] = Dec(10)

C9_Witness ==
  /\ Succeeded("add_liquidity")
  /\ OffersBothTokens(last)
  /\ last.in0.amount = Dec(100) /\ last.in1.amount = Dec(100)
  /\ last.pre.total_supply = Dec(100)
  /\ \A a \in PoolTokens : last.pre.vaults[a] = Dec(1000)
  /\ last.out[3] = Dec(10)
  /\ pool.total_supply = Dec(110)

\* What the add_liquidity call c deposited of token a.
Deposited(c, a) ==
  LET sorted == sort_buckets(c.in0, c.in1)
  IN  (IF sorted[1].resource_address = a THEN sorted[1].amount - c.out[1] ELSE 0)
      + (IF sorted[2].resource_address = a THEN sorted[2].amount - c.out[2] ELSE 0)

\* C10: when a successful add_liquidity of both tokens to a non-empty pool
\* (positive supply and reserves before it) is followed at once by
\* remove_liquidity of exactly the provider tokens it minted, the share
\* supply is back at its value before the deposit and remove_liquidity
\* withdraws of neither token more than add_liquidity deposited, so that no
\* reserve ends below its value before the deposit.
C10_AddThenRemove ==
  (Succeeded("remove_liquidity")
      /\ OffersBothTokens(prev) /\ prev.err = "none"
      /\ last.in0.amount = prev.out[3]
      /\ last.pre.total_supply - prev.out[3] > 0
      /\ \A a \in PoolTokens : last.pre.vaults[a] - Deposited(prev, a) > 0) =>
    /\ pool.total_supply = last.pre.total_supply - prev.out[3]
    /\ \A a \in PoolTokens :
         last.pre.vaults[a] - pool.vaults[a] <= Deposited(prev, a)

\* C11: on a pool with both reserves positive, at any fee and for any input
\* amount dx >= 0 of a pool token for which both quotes are defined,
\* calculate_input_amount for the other token of the output
\* calculate_output_amount quotes for dx, on the same reserves, is at most dx.
C11_QuoteRoundTrip ==
  PositiveReserves(pool) =>
    \A a \in PoolTokens, dx \in Amounts \cup OutputAmounts :
      LET b == other_resource_address(pool, a)
          out == calculate_output_amount(pool, a, dx)
      IN  out.err = "none" =>
            LET back == calculate_input_amount(pool, b, out.out[1])
            IN  back.err = "none" => back.out[1] <= dx

\* The share of reserve a that remove_liquidity pays for the provider tokens
\* of the latest call: (amount / supply) * reserve, on the pool before it.
ShareOf(a) ==
  DecMul(last.pre.vaults[a], DecDiv(last.in0.amount, last.pre.total_supply))

\* C12: a successful remove_liquidity of a provider tokens against supply S
\* leaves the supply at S - a, withdraws from each reserve (a / S) * reserve,
\* with the reserve as before the call, which is never more than the reserve
\* holds, and returns those amounts; withdraw, through which it pays, fails
\* with LiquidityError, taking nothing, for an amount above the reserve.
C12_RemovesProportionally ==
  /\ Succeeded("remove_liquidity") =>
       /\ pool.total_supply = last.pre.total_supply - last.in0.amount
       /\ \A a \in PoolTokens :
            /\ ShareOf(a) <= last.pre.vaults[a]
            /\ pool.vaults[a] = last.pre.vaults[a] - ShareOf(a)
       /\ last.out = <<ShareOf(addresses(last.pre)[1]), ShareOf(addresses(last.pre)[2])>>
  /\ \A a \in PoolTokens, amt \in OutputAmounts :
       amt > pool.vaults[a] =>
         withdraw(pool, a, amt) = Ret("LiquidityError", pool, <<>>)

\* Part of the supply was redeemed, for a positive amount of each token.
C12_Witness ==
  /\ Succeeded("remove_liquidity")
  /\ last.in0.amount > 0
  /\ last.in0.amount < last.pre.total_supply
  /\ \A a \in PoolTokens : ShareOf(a) > 0 /\ pool.vaults[a] = last.pre.vaults[a] - ShareOf(a)

\* C13: remove_liquidity of a pool, called with a bucket of a resource that
\* is not the pool's provider token, fails with ValidationError before it
\* burns or withdraws anything: every pool's reserves and share supply and
\* both maps of the ElisionSwap component are as before the call, at the
\* point of failure as after it.
C13_ForeignSharesRejected ==
  (last.op = "LiquidityPool::remove_liquidity"
      /\ last.in0.resource_address
           # last.pre.liquidity_pools[last.arg].provider_token_address) =>
    /\ last.err = "ValidationError"
    /\ last.out = <<>>
    /\ last.mid = last.pre
    /\ elision_swap = last.pre

\* The bucket held the provider token of another registered pool.
C13_Witness ==
  /\ last.op = "LiquidityPool::remove_liquidity"
  /\ last.in0.resource_address \in DOMAIN elision_swap.address_pair_map
  /\ elision_swap.address_pair_map[last.in0.resource_address] # last.arg
  /\ last.err = "ValidationError"
  /\ elision_swap = last.pre

\* Buckets no pool can be created from: twice the same resource, a
\* non-fungible resource, an empty bucket.
InvalidBuckets(token0, token1) ==
  \/ token0.resource_address = token1.resource_address
  \/ resource_type(token0.resource_address) = "NonFungible"
  \/ resource_type(token1.resource_address) = "NonFungible"
  \/ token0.amount = 0
  \/ token1.amount = 0

\* Fees given to LiquidityPool::new: in [0,100], at its ends and outside it.
CreationFees == {-1, 0, DefaultFee, Dec(100), Dec(100) + 1}

\* LiquidityPool::new fails with ValidationError, creating nothing, on
\* invalid buckets or a fee outside [0,100].
NewValidates ==
  \A offer \in RouterOffers, fee \in CreationFees :
    (InvalidBuckets(offer[1], offer[2]) \/ fee < 0 \/ fee > Dec(100)) =>
      new(offer[1], offer[2], fee) = Ret("ValidationError", <<>>, <<>>)

\* The latest call failed with the error e and wrote nothing: the component
\* is as before the call at the point of failure and after it.
FailedClean(e) ==
  /\ last.err = e
  /\ last.out = <<>>
  /\ last.mid = last.pre
  /\ elision_swap = last.pre

C15_CreatesAsGiven ==
  IF last.op = "new"
    THEN /\ last.err = "none"
         /\ DOMAIN pool.vaults = {last.in0.resource_address, last.in1.resource_address}
         /\ pool.vaults[last.in0.resource_address] = last.in0.amount
         /\ pool.vaults[last.in1.resource_address] = last.in1.amount
         /\ pool.total_supply = Dec(100)
         /\ last.out = <<Dec(100)>>
         /\ pool.pool_fee = last.arg
    ELSE /\ pool.pool_fee = last.pre.pool_fee
         /\ last.mid.pool_fee = last.pre.pool_fee

\* A pool created from unequal amounts, the smaller address first, at the
\* fee 0.3.
C15_Witness ==
  /\ last.op = "new"
  /\ last.in0.resource_address = TokenA
  /\ last.in0.amount = Dec(3)
  /\ last.in1.amount = 7
  /\ last.arg = DefaultFee
  /\ pool.vaults[TokenA] = Dec(3)
  /\ pool.vaults[TokenB] = 7
  /\ pool.total_supply = Dec(100)

\* The result of a method of pool `pair`, as the component returns it.
Through(s, pair, r) == Ret(r.err, [s EXCEPT !.liquidity_pools[pair] = r.pool], r.out)

\* C16: sort_addresses gives the same pair for (A, B) and (B, A), A # B, and
\* so does every method of the ElisionSwap component: pool_exists answers
\* the same, new_liquidity_pool and add_liquidity have the same outcome for
\* the buckets in either order, and swap, swap_exact_tokens_for_tokens and
\* swap_tokens_for_exact_tokens from A to B act on the pool that the pair
\* (B, A) names, and on no other.
C16_OrderIrrelevant ==
  LET s == elision_swap
  IN  /\ \A a \in RouterTokens \cup {NftToken}, b \in RouterTokens \cup {NftToken} :
           a # b =>
             /\ sort_addresses(a, b) = sort_addresses(b, a)
             /\ pool_exists(s, a, b) = pool_exists(s, b, a)
      /\ \A offer \in RouterOffers :
           offer[1].resource_address # offer[2].resource_address =>
             /\ sort_buckets(offer[1], offer[2]) = sort_buckets(offer[2], offer[1])
             /\ new_liquidity_pool(s, offer[1], offer[2])
                  = new_liquidity_pool(s, offer[2], offer[1])
             /\ ElisionSwap_add_liquidity(s, offer[1], offer[2])
                  = ElisionSwap_add_liquidity(s, offer[2], offer[1])
      /\ \A tokens \in RouterBuckets, b \in RouterTokens :
           LET pair == sort_addresses(b, tokens.resource_address)
           IN  (b # tokens.resource_address /\ pool_exists(s, b, tokens.resource_address)) =>
                 /\ ElisionSwap_swap(s, tokens, b)
                      = Through(s, pair, swap(s.liquidity_pools[pair], tokens))
                 /\ \A amt \in MinAmounts :
                      ElisionSwap_swap_exact_tokens_for_tokens(s, tokens, b, amt)
                        = Through(s, pair,
                            swap_exact_tokens_for_tokens(s.liquidity_pools[pair], tokens, amt))
                 /\ \A amt \in {1, Dec(3)} :
                      ElisionSwap_swap_tokens_for_exact_tokens(s, tokens, b, amt)
                        = Through(s, pair,
                            swap_tokens_for_exact_tokens(s.liquidity_pools[pair], tokens, amt))

\* Liquidity went, buckets given as (B, A), into the pool that was created
\* from buckets given as (A, B).
C16_Witness ==
  /\ last.op = "add_liquidity"
  /\ last.err = "none"
  /\ last.in0.resource_address = TokenB
  /\ last.in1.resource_address = TokenA
  /\ last.out[1] # <<>>
  /\ prev.op \in {"new_liquidity_pool", "add_liquidity"}
  /\ prev.err = "none"
  /\ prev.in0.resource_address = TokenA
  /\ prev.in1.resource_address = TokenB
  /\ DOMAIN last.pre.liquidity_pools = DOMAIN elision_swap.liquidity_pools

\* C17: every pair sort_addresses returns, every pair that is a key of
\* liquidity_pools and every pair that is a value of address_pair_map has
\* its first address strictly below its second; no pair has two equal
\* addresses, and sort_addresses(a, a) does not return (a, a).
C17_PairKeysAscending ==
  /\ \A a \in RouterTokens, b \in RouterTokens :
       a # b => sort_addresses(a, b)[1] < sort_addresses(a, b)[2]
  /\ \A pair \in DOMAIN elision_swap.liquidity_pools : pair[1] < pair[2]
  /\ \A t \in DOMAIN elision_swap.address_pair_map :
       elision_swap.address_pair_map[t][1] < elision_swap.address_pair_map[t][2]
  /\ \A a \in RouterTokens : sort_addresses(a, a) # <<a, a>>

\* C18: in every state of the ElisionSwap component, every provider token
\* in address_pair_map maps to a pair that is a key of liquidity_pools and
\* whose pool issued that token, every key of liquidity_pools is the pair of
\* exactly one provider token, and the pool registered for a pair holds the
\* two resources of the pair.
C18_MapsConsistent ==
  LET s == elision_swap
  IN  /\ \A t \in DOMAIN s.address_pair_map :
           /\ s.address_pair_map[t] \in DOMAIN s.liquidity_pools
           /\ s.liquidity_pools[s.address_pair_map[t]].provider_token_address = t
      /\ \A pair \in DOMAIN s.liquidity_pools :
           /\ Cardinality({t \in DOMAIN s.address_pair_map :
                             s.address_pair_map[t] = pair}) = 1
           /\ DOMAIN s.liquidity_pools[pair].vaults = {pair[1], pair[2]}
      /\ Cardinality(DOMAIN s.address_pair_map) = Cardinality(DOMAIN s.liquidity_pools)

\* Two pools are registered, and shares of one of them were just redeemed
\* through the component.
C18_Witness ==
  /\ Cardinality(DOMAIN elision_swap.liquidity_pools) = 2
  /\ last.op = "remove_liquidity"
  /\ last.err = "none"
  /\ elision_swap # last.pre

\* The latest call registered a new pool for the buckets it was given: the
\* pair of the buckets is a new key of liquidity_pools, its pool holds the
\* two buckets in full, at the fee 0.3 and with 100 provider tokens issued,
\* its provider token is a new key of address_pair_map with the pair as its
\* value, and every other entry of both maps is as before.
RegisteredNewPool ==
  LET pair == sort_addresses(last.in0.resource_address, last.in1.resource_address)
      before == last.pre
      after == elision_swap
  IN  /\ pair \notin DOMAIN before.liquidity_pools
      /\ DOMAIN after.liquidity_pools = DOMAIN before.liquidity_pools \cup {pair}
      /\ \A q \in DOMAIN before.liquidity_pools :
           after.liquidity_pools[q] = before.liquidity_pools[q]
      /\ LET created == after.liquidity_pools[pair]
         IN  /\ created.pool_fee = DefaultFee
             /\ created.vaults[last.in0.resource_address] = last.in0.amount
             /\ created.vaults[last.in1.resource_address] = last.in1.amount
             /\ created.total_supply = Dec(100)
             /\ created.provider_token_address \notin DOMAIN before.address_pair_map
             /\ DOMAIN after.address_pair_map
                  = DOMAIN before.address_pair_map \cup {created.provider_token_address}
             /\ after.address_pair_map[created.provider_token_address] = pair
      /\ \A t \in DOMAIN before.address_pair_map :
           after.address_pair_map[t] = before.address_pair_map[t]

C20_AddLiquidityCreatesOrDelegates ==
  last.op = "add_liquidity" =>
    LET pair == sort_addresses(last.in0.resource_address, last.in1.resource_address)
    IN  /\ last.err # "NotFoundError"
        /\ IF pair \in DOMAIN last.pre.liquidity_pools
             THEN LET r == add_liquidity(last.pre.liquidity_pools[pair], last.in0, last.in1)
                  IN  /\ last.err = r.err
                      /\ DOMAIN elision_swap.liquidity_pools = DOMAIN last.pre.liquidity_pools
                      /\ elision_swap.address_pair_map = last.pre.address_pair_map
                      /\ r.err = "none" =>
                           /\ last.out = <<<<r.out[1]>>, <<r.out[2]>>, r.out[3]>>
                           /\ elision_swap = [last.pre EXCEPT !.liquidity_pools[pair] = r.pool]
             ELSE ~InvalidBuckets(last.in0, last.in1) =>
                    /\ last.err = "none"
                    /\ last.out = <<<<>>, <<>>, Dec(100)>>
                    /\ RegisteredNewPool

\* add_liquidity created a pool, and the next add_liquidity for the same
\* pair went into it and returned a remainder.
C20_Witness ==
  /\ last.op = "add_liquidity"
  /\ last.err = "none"
  /\ last.out[2] # <<>>
  /\ last.out[1] # <<0>> \/ last.out[2] # <<0>>
  /\ prev.op = "add_liquidity"
  /\ prev.err = "none"
  /\ prev.out = <<<<>>, <<>>, Dec(100)>>
  /\ sort_addresses(prev.in0.resource_address, prev.in1.resource_address)
       = sort_addresses(last.in0.resource_address, last.in1.resource_address)

SwapOps == {"swap", "swap_exact_tokens_for_tokens", "swap_tokens_for_exact_tokens"}

\* What the pool p returns for the swap call c of the component.
PoolSwapResult(p, c) ==
  CASE c.op = "swap" -> swap(p, c.in0)
    [] c.op = "swap_exact_tokens_for_tokens" ->
         swap_exact_tokens_for_tokens(p, c.in0, c.arg[2])
    [] c.op = "swap_tokens_for_exact_tokens" ->
         swap_tokens_for_exact_tokens(p, c.in0, c.arg[2])

C22_RemoveFindsIssuer ==
  last.op = "remove_liquidity" =>
    LET t == last.in0.resource_address
    IN  IF t \notin DOMAIN last.pre.address_pair_map
          THEN FailedClean("NotFoundError")
          ELSE LET pair == last.pre.address_pair_map[t]
                   r == remove_liquidity(last.pre.liquidity_pools[pair], last.in0)
               IN  /\ last.pre.liquidity_pools[pair].provider_token_address = t
                   /\ last.err \notin {"NotFoundError", "ValidationError"}
                   /\ last.err = r.err
                   /\ last.out = r.out
                   /\ last.mid = [last.pre EXCEPT !.liquidity_pools[pair] = r.pool]
                   /\ elision_swap.address_pair_map = last.pre.address_pair_map
                   /\ DOMAIN elision_swap.liquidity_pools = DOMAIN last.pre.liquidity_pools
                   /\ \A q \in DOMAIN last.pre.liquidity_pools :
                        q # pair => elision_swap.liquidity_pools[q] = last.pre.liquidity_pools[q]

\* Provider tokens of the pool created second were redeemed for both of its
\* tokens.
C22_Witness ==
  /\ last.op = "remove_liquidity"
  /\ last.err = "none"
  /\ last.in0.resource_address # ProviderToken
  /\ last.in0.resource_address \in DOMAIN last.pre.address_pair_map
  /\ last.out[1] > 0
  /\ last.out[2] > 0

\* C23: a call of a method of the ElisionSwap component or of a pool that
\* fails, at whatever assertion, also one reached after the call has
\* deposited, withdrawn or burned, leaves every pool's reserves and share
\* supply and both maps of the component as they were before the call.
C23_FailureWritesNothing ==
  last.err # "none" => elision_swap = last.pre

\* swap_exact_tokens_for_tokens failed its check of the output after the
\* swap had moved tokens in the pool, and nothing of it is left.
C23_Witness ==
  /\ last.op = "swap_exact_tokens_for_tokens"
  /\ last.err = "SlippageError"
  /\ last.mid # last.pre
  /\ elision_swap = last.pre

\* C24: a pool, once registered, stays: across every step each key of
\* liquidity_pools remains a key, mapped to a pool of the same two
\* resources and the same provider token, each provider token in
\* address_pair_map keeps its pair, also when all provider tokens of the
\* pool are redeemed; and no pair is registered in both orders.
C24_PoolsStay ==
  [][ /\ \A pair \in DOMAIN elision_swap.liquidity_pools :
           /\ pair \in DOMAIN elision_swap'.liquidity_pools
           /\ pool_exists(elision_swap', pair[1], pair[2])
           /\ pool_exists(elision_swap', pair[2], pair[1])
           /\ elision_swap'.liquidity_pools[pair].provider_token_address
                = elision_swap.liquidity_pools[pair].provider_token_address
           /\ DOMAIN elision_swap'.liquidity_pools[pair].vaults
                = DOMAIN elision_swap.liquidity_pools[pair].vaults
      /\ \A t \in DOMAIN elision_swap.address_pair_map :
           /\ t \in DOMAIN elision_swap'.address_pair_map
           /\ elision_swap'.address_pair_map[t] = elision_swap.address_pair_map[t]
      /\ \A pair \in DOMAIN elision_swap'.liquidity_pools :
           <<pair[2], pair[1]>> \notin DOMAIN elision_swap'.liquidity_pools
    ]_vars

\* All provider tokens of a pool were redeemed through the component, and
\* the pool is still registered, empty.
C24_Witness ==
  /\ last.op = "remove_liquidity"
  /\ last.err = "none"
  /\ LET pair == last.pre.address_pair_map[last.in0.resource_address]
     IN  /\ pool_exists(elision_swap, pair[1], pair[2])
         /\ elision_swap.liquidity_pools[pair].total_supply = 0
         /\ elision_swap.liquidity_pools[pair].provider_token_address
              = last.in0.resource_address

\* C25: in every state of a pool, reached by any calls including direct
\* deposit and withdraw, the pool has exactly the two vaults of its two
\* resources and neither amount is negative; deposit and withdraw of a
\* resource that is not of the pool fail with MembershipError, and withdraw
\* of more than the vault holds fails and leaves the vaults as they were.
C25_TwoReserves ==
  /\ DOMAIN pool.vaults = PoolTokens
  /\ Cardinality(DOMAIN pool.vaults) = 2
  /\ \A a \in DOMAIN pool.vaults : pool.vaults[a] >= 0
  /\ (last.op = "deposit" /\ last.in0.resource_address \notin PoolTokens)
       => last.err = "MembershipError" /\ pool = last.pre
  /\ (last.op = "withdraw" /\ last.arg[1] \notin PoolTokens)
       => last.err = "MembershipError" /\ pool = last.pre
  /\ (last.op = "withdraw" /\ last.arg[1] \in PoolTokens
        /\ last.arg[2] > last.pre.vaults[last.arg[1]])
       => last.err = "LiquidityError" /\ pool = last.pre

\* withdraw was asked for more than the vault holds, on a pool whose vault
\* is not empty.
C25_Witness ==
  /\ last.op = "withdraw"
  /\ last.arg[1] \in PoolTokens
  /\ last.pre.vaults[last.arg[1]] > 0
  /\ last.arg[2] > last.pre.vaults[last.arg[1]]
  /\ last.err = "LiquidityError"
  /\ pool.vaults = last.pre.vaults

\* C26: in every state each registered pool has provider token supply zero
\* exactly when both its vaults are empty, and positive supply exactly when
\* both vaults are positive; and no swap through the component into a pool
\* whose provider tokens were all redeemed succeeds in depositing the input
\* for an output of zero.
C26_NoUnclaimedFunds ==
  /\ \A pair \in DOMAIN elision_swap.liquidity_pools :
       LET p == elision_swap.liquidity_pools[pair]
       IN  /\ p.total_supply = 0 => \A a \in DOMAIN p.vaults : p.vaults[a] = 0
           /\ p.total_supply > 0 => PositiveReserves(p)
  /\ (last.op \in SwapOps /\ last.err = "none")
       => LET pair == sort_addresses(last.in0.resource_address, last.arg[1])
          IN  last.pre.liquidity_pools[pair].total_supply > 0

\* The amount of the resource a in a bucket.
AmountOf(bucket, a) == IF bucket.resource_address = a THEN bucket.amount ELSE 0

\* The amount of a in the buckets passed to the call c.
PassedIn(c, a) == AmountOf(c.in0, a) + AmountOf(c.in1, a)

\* The amount of a in the buckets the call c returned: add_liquidity returns
\* the two remainders in the order of sort_buckets, remove_liquidity the two
\* withdrawals in the order of addresses(), the swaps the output and, for
\* swap_tokens_for_exact_tokens, what is left of the input.
HandedBack(c, a) ==
  CASE c.op = "new" -> 0
    [] c.op = "add_liquidity" ->
         LET sorted == sort_buckets(c.in0, c.in1)
         IN  AmountOf(Bucket(sorted[1].resource_address, c.out[1]), a)
               + AmountOf(Bucket(sorted[2].resource_address, c.out[2]), a)
    [] c.op = "remove_liquidity" ->
         AmountOf(Bucket(addresses(c.pre)[1], c.out[1]), a)
           + AmountOf(Bucket(addresses(c.pre)[2], c.out[2]), a)
    [] c.op \in {"swap", "swap_exact_tokens_for_tokens"} ->
         AmountOf(Bucket(other_resource_address(c.pre, c.in0.resource_address),
                         c.out[1]), a)
    [] c.op = "swap_tokens_for_exact_tokens" ->
         AmountOf(Bucket(other_resource_address(c.pre, c.in0.resource_address),
                         c.out[1]), a)
           + AmountOf(Bucket(c.in0.resource_address, c.out[2]), a)

ReserveBefore(c, a) == IF c.op = "new" THEN 0 ELSE c.pre.vaults[a]

SupplyBefore(c) == IF c.op = "new" THEN 0 ELSE c.pre.total_supply

\* Provider tokens the call c minted, less those it burned.
NetMinted(c) ==
  CASE c.op = "new" -> c.out[1]
    [] c.op = "add_liquidity" -> c.out[3]
    [] c.op = "remove_liquidity" -> 0 - c.in0.amount
    [] OTHER -> 0

ConservingOps ==
  {"new", "add_liquidity", "remove_liquidity"} \cup SwapOps

\* C27: after every successful new, add_liquidity, remove_liquidity, swap,
\* swap_exact_tokens_for_tokens and swap_tokens_for_exact_tokens, for each
\* of the pool's two resources the vault plus what the returned buckets hold
\* of it equals the vault before plus what the passed buckets held of it, no
\* returned bucket holds a negative amount, and the provider token supply
\* changed by exactly what new and add_liquidity minted and remove_liquidity
\* burned, and not at all in a swap.
C27_AssetsConserved ==
  (last.op \in ConservingOps /\ last.err = "none") =>
    /\ \A a \in PoolTokens :
         pool.vaults[a] + HandedBack(last, a)
           = ReserveBefore(last, a) + PassedIn(last, a)
    /\ \A i \in DOMAIN last.out : last.out[i] >= 0
    /\ pool.total_supply = SupplyBefore(last) + NetMinted(last)
    /\ last.op \in SwapOps => pool.total_supply = last.pre.total_supply

\* swap_tokens_for_exact_tokens paid an output and handed back a part of the
\* input bucket.
C27_Witness ==
  /\ Succeeded("swap_tokens_for_exact_tokens")
  /\ last.out[1] > 0
  /\ last.out[2] > 0
  /\ last.out[2] < last.in0.amount
  /\ pool.vaults[last.in0.resource_address]
       = last.pre.vaults[last.in0.resource_address] + last.in0.amount - last.out[2]

\* C28: across every successful add_liquidity or remove_liquidity on a pool
\* with positive provider token supply that leaves the supply positive, the
\* claim of one provider token on each reserve does not decrease:
\* reserve' * supply >= reserve * supply' for both resources.
C28_NoDilution ==
  (/\ last.op \in {"add_liquidity", "remove_liquidity"}
   /\ last.err = "none"
   /\ last.pre.total_supply > 0
   /\ pool.total_supply > 0)
    => \A a \in PoolTokens :
         pool.vaults[a] * last.pre.total_supply
           >= last.pre.vaults[a] * pool.total_supply

\* C29: on a pool of any fee that new accepts, with both reserves positive,
\* calculate_input_amount for an output amount above zero and below the
\* reserve of the output token returns a non-negative amount, and
\* swap_tokens_for_exact_tokens for such an output amount succeeds unless the
\* input bucket holds less than that amount.
C29_QuotesDefinedAtEveryFee ==
  /\ (/\ last.op = "calculate_input_amount"
      /\ belongs_to_pool(last.pre, last.in0.resource_address)
      /\ PositiveReserves(last.pre)
      /\ 0 < last.in0.amount
      /\ last.in0.amount < last.pre.vaults[last.in0.resource_address])
       => last.err = "none" /\ last.out[1] >= 0
  /\ (/\ last.op = "swap_tokens_for_exact_tokens"
      /\ belongs_to_pool(last.pre, last.in0.resource_address)
      /\ PositiveReserves(last.pre)
      /\ 0 < last.arg
      /\ LET output_resource_address ==
               other_resource_address(last.pre, last.in0.resource_address)
             q == calculate_input_amount(last.pre, output_resource_address, last.arg)
         IN  /\ last.arg < last.pre.vaults[output_resource_address]
             /\ ~(q.err = "none" /\ last.in0.amount < q.out[1]))
       => last.err = "none"

====
